---- MODULE Spec2Model ----
(***************************************************************************)
(* BOMGenerator (app.py): the upload pipeline that turns a DXF drawing     *)
(* into a Bill of Materials.                                               *)
(*                                                                         *)
(*   upload -> explore_dxf -> ensure_mapping -> parse_dxf -> export_excel  *)
(*                                                                         *)
(* Quantities.  The code works in floats: a length in drawing units (mm)   *)
(* is divided by 1000.0 and added to a running total in metres; a block    *)
(* reference adds 1.  The model holds every quantity in THOUSANDTHS of the *)
(* unit (an integer): a length of 1234 mm adds 1234, a block reference     *)
(* adds 1000.  The drawings of the model have integral lengths whose sums  *)
(* never fall on a rounding tie or, unless exactly representable, on an    *)
(* integer boundary, so the float result and the exact result agree.       *)
(*                                                                         *)
(* Python dicts keep insertion order; they are modelled as association     *)
(* lists (sequences of [k, v] records without repeated keys).              *)
(***************************************************************************)
EXTENDS Integers, Sequences, FiniteSets, TLC

\* ------------------------------------------------------------------ bounds

\* Longest drawing (number of entities in the model space).
MaxEnt == 3

\* ------------------------------------------------------------ dictionaries

RECURSIVE DictIndex(_, _)
\* Position of key k in association list d, 0 when absent.
DictIndex(d, k) ==
    IF d = << >> THEN 0
    ELSE IF d[Len(d)].k = k THEN Len(d)
         ELSE DictIndex(SubSeq(d, 1, Len(d) - 1), k)

DictHas(d, k) == DictIndex(d, k) # 0

DictGet(d, k) == d[DictIndex(d, k)].v

DictKeys(d) == {d[i].k : i \in 1..Len(d)}

\* d[k] = v : replaces in place, or appends a new key at the end.
DictSet(d, k, v) ==
    IF DictHas(d, k)
    THEN [d EXCEPT ![DictIndex(d, k)] = [k |-> k, v |-> v]]
    ELSE Append(d, [k |-> k, v |-> v])

\* d.setdefault(k, v): inserts only when k is absent.
DictSetDefault(d, k, v) == IF DictHas(d, k) THEN d ELSE DictSet(d, k, v)

\* defaultdict(int): d[k] += 1
DictInc(d, k) == DictSet(d, k, (IF DictHas(d, k) THEN DictGet(d, k) ELSE 0) + 1)

\* A dict as a function: what Python's == on dicts compares (order ignored).
DictAsMap(d) == [k \in DictKeys(d) |-> DictGet(d, k)]

\* ---------------------------------------------------------------- strings

\* str.upper() on the names the drawings of the model use.
Upper(s) ==
    CASE s = "pipe"  -> "PIPE"
      [] s = "Wall"  -> "WALL"
      [] s = "valve" -> "VALVE"
      [] s = "misc"  -> "MISC"
      [] OTHER       -> s

\* ---------------------------------------------------------------- entities

\* A drawing entity: its DXF type tag, its layer attribute (haslayer is
\* hasattr(e.dxf, "layer")), its block name (INSERT only) and its points
\* (LINE: start and end, 3D; polylines: the vertices, 2D).
Entity(type, haslayer, layer, name, pts) ==
    [type |-> type, haslayer |-> haslayer, layer |-> layer, name |-> name, pts |-> pts]

EntityPool ==
    { Entity("LINE", TRUE, "pipe", "", << <<0, 0, 0>>, <<1000, 0, 0>> >>),
      Entity("LINE", TRUE, "PIPE", "", << <<0, 0, 0>>, <<300, 400, 0>> >>),
      Entity("LWPOLYLINE", TRUE, "Wall", "",
             << <<0, 0>>, <<300, 400>>, <<300, 1134>> >>),
      Entity("POLYLINE", TRUE, "WALL", "", << <<7, 7>> >>),
      Entity("INSERT", TRUE, "PIPE", "valve", << >>),
      Entity("INSERT", TRUE, "misc", "VALVE", << >>),
      Entity("CIRCLE", FALSE, "", "", << >>) }

RECURSIVE SeqsUpTo(_, _)
SeqsUpTo(S, n) ==
    IF n = 0 THEN {<< >>}
    ELSE LET shorter == SeqsUpTo(S, n - 1)
         IN shorter \cup {Append(s, x) : s \in {t \in shorter : Len(t) = n - 1}, x \in S}

\* The model spaces a readable drawing can hold.
Drawings == SeqsUpTo(EntityPool, MaxEnt)

\* ----------------------------------------------------------- entity_length

RECURSIVE SqrtIter(_, _)
SqrtIter(n, x) ==
    LET y == (x + n \div x) \div 2
    IN IF y >= x THEN x ELSE SqrtIter(n, y)

\* Square root; exact on the perfect squares the drawings of the model give.
Sqrt(n) == IF n = 0 THEN 0 ELSE SqrtIter(n, n)

RECURSIVE SumSq(_, _, _)
SumSq(p, q, i) ==
    IF i = 0 THEN 0 ELSE (p[i] - q[i]) * (p[i] - q[i]) + SumSq(p, q, i - 1)

\* math.dist(p, q)
Dist(p, q) == Sqrt(SumSq(p, q, Len(p)))

RECURSIVE LineStringLength(_)
\* shapely LineString(pts).length: the sum of the consecutive distances.
LineStringLength(pts) ==
    IF Len(pts) < 2 THEN 0
    ELSE LineStringLength(SubSeq(pts, 1, Len(pts) - 1))
         + Dist(pts[Len(pts) - 1], pts[Len(pts)])

entity_length(e) ==
    IF e.type = "LINE" THEN Dist(e.pts[1], e.pts[2])
    ELSE IF e.type \in {"LWPOLYLINE", "POLYLINE"}
         THEN (IF Len(e.pts) > 1 THEN LineStringLength(e.pts) ELSE 0)
         ELSE 0

\* -------------------------------------------------------------- explore_dxf

EmptySurvey == [entity_counts |-> << >>, layer_counts |-> << >>, block_counts |-> << >>]

\* Tally with the layer tally fed from the wrong counter.
TallyWrongCounter(s, e) ==
    LET ec == DictInc(s.entity_counts, e.type)
    IN [entity_counts |-> ec,
        layer_counts  |-> IF e.haslayer
                          THEN DictSet(s.layer_counts, Upper(e.layer), DictGet(ec, e.type))
                          ELSE s.layer_counts,
        block_counts  |-> IF e.type = "INSERT" THEN DictInc(s.block_counts, Upper(e.name))
                          ELSE s.block_counts]

\* The body of the loop of explore_dxf, for one entity.
Tally(s, e) ==
    [entity_counts |-> DictInc(s.entity_counts, e.type),
     layer_counts  |-> IF e.haslayer THEN DictInc(s.layer_counts, Upper(e.layer))
                       ELSE s.layer_counts,
     block_counts  |-> IF e.type = "INSERT" THEN DictInc(s.block_counts, Upper(e.name))
                       ELSE s.block_counts]

RECURSIVE explore_dxf(_)
\* The three tallies of a readable drawing, entities taken in model-space order.
explore_dxf(msp) ==
    IF msp = << >> THEN EmptySurvey
    ELSE Tally(explore_dxf(SubSeq(msp, 1, Len(msp) - 1)), msp[Len(msp)])

\* ------------------------------------------------------------- mapping.json

MapEntry(item, unit) == [item |-> item, unit |-> unit]

RECURSIVE SelfEntries(_, _)
\* {k: {"item": k, "unit": unit} for k in d.keys()}, in the order of d.
SelfEntries(d, unit) ==
    IF d = << >> THEN << >>
    ELSE Append(SelfEntries(SubSeq(d, 1, Len(d) - 1), unit),
                [k |-> d[Len(d)].k, v |-> MapEntry(d[Len(d)].k, unit)])

\* SynthMapping with the blocks given the unit of the layers.
SynthMappingSameUnit(layers, blocks) ==
    [layers   |-> SelfEntries(layers, "m"),
     blocks   |-> SelfEntries(blocks, "m"),
     defaults |-> [unit_length |-> "m", length_precision |-> 2]]

\* The mapping ensure_mapping builds from the survey's layers and blocks.
SynthMapping(layers, blocks) ==
    [layers   |-> SelfEntries(layers, "m"),
     blocks   |-> SelfEntries(blocks, "pcs"),
     defaults |-> [unit_length |-> "m", length_precision |-> 2]]

\* The text of a mapping file is a sequence of tokens: an opening brace, then
\* for each top-level field a key token followed by its members, then a
\* closing brace.  NUL is a hole left by a write past the end of the file.
TokOpen  == [t |-> "{"]
TokClose == [t |-> "}"]
TokNul   == [t |-> "NUL"]
TokKey(k) == [t |-> "key", k |-> k]
TokEntry(k, e) == [t |-> "entry", k |-> k, item |-> e.item, unit |-> e.unit]
TokStr(k, s) == [t |-> "str", k |-> k, s |-> s]
TokInt(k, n) == [t |-> "int", k |-> k, n |-> n]

RECURSIVE DumpEntries(_)
DumpEntries(d) ==
    IF d = << >> THEN << >>
    ELSE Append(DumpEntries(SubSeq(d, 1, Len(d) - 1)),
                TokEntry(d[Len(d)].k, d[Len(d)].v))

DumpDefaults(d) ==
    (IF "unit_length" \in DOMAIN d THEN <<TokStr("unit_length", d.unit_length)>> ELSE << >>)
    \o (IF "length_precision" \in DOMAIN d
        THEN <<TokInt("length_precision", d.length_precision)>> ELSE << >>)

\* json.dump(mapping): the text of a mapping (a function on a subset of
\* {"layers", "blocks", "defaults"}).
JsonDump(m) ==
    <<TokOpen>>
    \o (IF "layers" \in DOMAIN m THEN <<TokKey("layers")>> \o DumpEntries(m.layers) ELSE << >>)
    \o (IF "blocks" \in DOMAIN m THEN <<TokKey("blocks")>> \o DumpEntries(m.blocks) ELSE << >>)
    \o (IF "defaults" \in DOMAIN m THEN <<TokKey("defaults")>> \o DumpDefaults(m.defaults)
        ELSE << >>)
    \o <<TokClose>>

\* f with f[k] = v added or replaced.
With(f, k, v) == [x \in DOMAIN f \cup {k} |-> IF x = k THEN v ELSE f[x]]

EmptyObject == [x \in {} |-> 0]

\* Whether token tok may stand in the top-level field named key.
MemberOf(tok, key) ==
    IF key \in {"layers", "blocks"} THEN tok.t = "entry"
    ELSE \/ tok.t = "str" /\ tok.k = "unit_length"
         \/ tok.t = "int" /\ tok.k = "length_precision"

\* The field's value with the member tok added (a repeated key: last wins).
AddMember(val, tok) ==
    CASE tok.t = "entry" -> DictSet(val, tok.k, MapEntry(tok.item, tok.unit))
      [] tok.t = "str"   -> With(val, tok.k, tok.s)
      [] tok.t = "int"   -> With(val, tok.k, tok.n)

RECURSIVE ParseMembers(_, _)
\* Parses the tokens between the braces, in order: [ok, doc, cur] where cur is
\* the field being filled ("" before the first key).
ParseMembers(toks, n) ==
    IF n = 0 THEN [ok |-> TRUE, doc |-> EmptyObject, cur |-> ""]
    ELSE LET r   == ParseMembers(toks, n - 1)
             tok == toks[n]
         IN IF ~r.ok THEN r
            ELSE IF tok.t = "key"
                 THEN [ok  |-> TRUE,
                       doc |-> With(r.doc, tok.k,
                                    IF tok.k = "defaults" THEN EmptyObject ELSE << >>),
                       cur |-> tok.k]
            ELSE IF tok.t \in {"entry", "str", "int"} /\ r.cur # "" /\ MemberOf(tok, r.cur)
                 THEN [r EXCEPT !.doc = With(r.doc, r.cur, AddMember(r.doc[r.cur], tok))]
            ELSE [r EXCEPT !.ok = FALSE]

\* json.load(f) on the text of the file: ok = FALSE is a JSONDecodeError (an
\* empty or truncated text, text after the closing brace, a hole).  A member
\* of the wrong shape for its field is counted as undecodable too.
JsonLoad(text) ==
    IF Len(text) < 2 \/ text[1] # TokOpen \/ text[Len(text)] # TokClose
    THEN [ok |-> FALSE, doc |-> EmptyObject]
    ELSE LET r == ParseMembers(SubSeq(text, 2, Len(text) - 1), Len(text) - 2)
         IN [ok |-> r.ok, doc |-> IF r.ok THEN r.doc ELSE EmptyObject]

\* ---------------------------------------------------------------- parse_dxf

BomLine(quantity, unit, source) == [quantity |-> quantity, unit |-> unit, source |-> source]

\* Accumulate with the line assigned instead of set by default: a later
\* contribution starts the line again.
AccumulateAssign(bom, item, unit, source, amount) ==
    DictSet(bom, item, BomLine(amount, unit, source))

\* Accumulate with unit and source taken from the latest contribution.
AccumulateLatest(bom, item, unit, source, amount) ==
    LET b    == DictSetDefault(bom, item, BomLine(0, unit, source))
        line == DictGet(b, item)
    IN DictSet(b, item, BomLine(line.quantity + amount, unit, source))

\* bom.setdefault(item, {quantity: 0, unit, source}); bom[item]["quantity"] += amount
Accumulate(bom, item, unit, source, amount) ==
    LET b    == DictSetDefault(bom, item, BomLine(0, unit, source))
        line == DictGet(b, item)
    IN DictSet(b, item, [line EXCEPT !.quantity = line.quantity + amount])

\* LoopBody with the lengths left in drawing units (no division by 1000).
LoopBodyNoConversion(bom, e, mapping) ==
    IF e.type \in {"LINE", "LWPOLYLINE", "POLYLINE"}
    THEN IF "layers" \notin DOMAIN mapping THEN [err |-> TRUE, bom |-> bom]
         ELSE LET layer == Upper(e.layer)
              IN IF DictHas(mapping.layers, layer)
                 THEN LET entry == DictGet(mapping.layers, layer)
                      IN [err |-> FALSE,
                          bom |-> Accumulate(bom, entry.item, entry.unit, "Layer",
                                             1000 * entity_length(e))]
                 ELSE [err |-> FALSE, bom |-> bom]
    ELSE IF e.type = "INSERT"
    THEN IF "blocks" \notin DOMAIN mapping THEN [err |-> TRUE, bom |-> bom]
         ELSE LET blk == Upper(e.name)
              IN IF DictHas(mapping.blocks, blk)
                 THEN LET entry == DictGet(mapping.blocks, blk)
                      IN [err |-> FALSE,
                          bom |-> Accumulate(bom, entry.item, entry.unit, "Block", 1000)]
                 ELSE [err |-> FALSE, bom |-> bom]
    ELSE [err |-> FALSE, bom |-> bom]

\* LoopBody with the block names looked up as written (no upper()).
LoopBodyNameAsWritten(bom, e, mapping) ==
    IF e.type \in {"LINE", "LWPOLYLINE", "POLYLINE"}
    THEN IF "layers" \notin DOMAIN mapping THEN [err |-> TRUE, bom |-> bom]
         ELSE LET layer == Upper(e.layer)
              IN IF DictHas(mapping.layers, layer)
                 THEN LET entry == DictGet(mapping.layers, layer)
                      IN [err |-> FALSE,
                          bom |-> Accumulate(bom, entry.item, entry.unit, "Layer",
                                             entity_length(e))]
                 ELSE [err |-> FALSE, bom |-> bom]
    ELSE IF e.type = "INSERT"
    THEN IF "blocks" \notin DOMAIN mapping THEN [err |-> TRUE, bom |-> bom]
         ELSE IF DictHas(mapping.blocks, e.name)
              THEN LET entry == DictGet(mapping.blocks, e.name)
                   IN [err |-> FALSE,
                       bom |-> Accumulate(bom, entry.item, entry.unit, "Block", 1000)]
              ELSE [err |-> FALSE, bom |-> bom]
    ELSE [err |-> FALSE, bom |-> bom]

\* The body of the first loop of parse_dxf for one entity e: [err, bom], err
\* being the KeyError of mapping["layers"] or mapping["blocks"] on a mapping
\* without that field.  Amounts are in thousandths: entity_length(e) / 1000.0
\* metres is entity_length(e) thousandths, one block reference is 1000.
LoopBody(bom, e, mapping) ==
    IF e.type \in {"LINE", "LWPOLYLINE", "POLYLINE"}
    THEN IF "layers" \notin DOMAIN mapping THEN [err |-> TRUE, bom |-> bom]
         ELSE LET layer == Upper(e.layer)
              IN IF DictHas(mapping.layers, layer)
                 THEN LET entry == DictGet(mapping.layers, layer)
                      IN [err |-> FALSE,
                          bom |-> Accumulate(bom, entry.item, entry.unit, "Layer",
                                             entity_length(e))]
                 ELSE [err |-> FALSE, bom |-> bom]
    ELSE IF e.type = "INSERT"
    THEN IF "blocks" \notin DOMAIN mapping THEN [err |-> TRUE, bom |-> bom]
         ELSE LET blk == Upper(e.name)
              IN IF DictHas(mapping.blocks, blk)
                 THEN LET entry == DictGet(mapping.blocks, blk)
                      IN [err |-> FALSE,
                          bom |-> Accumulate(bom, entry.item, entry.unit, "Block", 1000)]
                 ELSE [err |-> FALSE, bom |-> bom]
    ELSE [err |-> FALSE, bom |-> bom]

RECURSIVE Pow10(_)
Pow10(n) == IF n <= 0 THEN 1 ELSE 10 * Pow10(n - 1)

\* round(q, ndigits) of a quantity q in thousandths, ties to even.
Round(q, ndigits) ==
    LET u    == Pow10(3 - ndigits)
        r    == q % u
        down == q - r
    IN IF 2 * r < u THEN down
       ELSE IF 2 * r > u THEN down + u
       ELSE IF (down \div u) % 2 = 0 THEN down ELSE down + u

\* int(q) of a non-negative quantity q in thousandths.
IntPart(q) == (q \div 1000) * 1000

\* mapping["defaults"].get("length_precision", 2)
LengthPrecision(mapping) ==
    IF "length_precision" \in DOMAIN mapping.defaults
    THEN mapping.defaults.length_precision ELSE 2

\* The quantity of one line after the second loop of parse_dxf.
NormalQuantity(line, mapping) ==
    IF line.unit = "m" THEN Round(line.quantity, LengthPrecision(mapping))
    ELSE IntPart(line.quantity)

\* The second loop of parse_dxf: [err, bom], err being the KeyError of
\* mapping["defaults"], raised at the first line in metres.
Normalize(bom, mapping) ==
    IF "defaults" \notin DOMAIN mapping /\ \E i \in 1..Len(bom) : bom[i].v.unit = "m"
    THEN [err |-> TRUE, bom |-> bom]
    ELSE [err |-> FALSE,
          bom |-> [i \in 1..Len(bom) |->
                     [k |-> bom[i].k,
                      v |-> [bom[i].v EXCEPT !.quantity = NormalQuantity(bom[i].v, mapping)]]]]

RECURSIVE LoopFold(_, _, _)
\* The first loop of parse_dxf over the first n entities: [err, bom].
LoopFold(msp, n, mapping) ==
    IF n = 0 THEN [err |-> FALSE, bom |-> << >>]
    ELSE LET r == LoopFold(msp, n - 1, mapping)
         IN IF r.err THEN r ELSE LoopBody(r.bom, msp[n], mapping)

\* parse_dxf as a whole, on a loaded mapping: [err, bom].
parse_dxf(msp, mapping) ==
    LET r == LoopFold(msp, Len(msp), mapping)
    IN IF r.err THEN r ELSE Normalize(r.bom, mapping)

\* export_excel: the rows of the spreadsheet, in the order of the bom.
export_excel(bom) ==
    [i \in 1..Len(bom) |->
       [Item |-> bom[i].k, Quantity |-> bom[i].v.quantity,
        Unit |-> bom[i].v.unit, Source |-> bom[i].v.source]]

\* ------------------------------------------------------------------- inputs

\* An upload: whether its file name ends in .dxf, whether ezdxf can read the
\* file, and the model space of a readable drawing.
Request(name_ok, readable, msp) == [name_ok |-> name_ok, readable |-> readable, msp |-> msp]

Requests ==
    {Request(FALSE, FALSE, << >>), Request(TRUE, FALSE, << >>)}
    \cup {Request(TRUE, TRUE, d) : d \in Drawings}

NoFile == [exists |-> FALSE, text |-> << >>]

FileOf(text) == [exists |-> TRUE, text |-> text]

\* Mappings a user may have left in mapping.json: the one of the spec's
\* examples, one where two layers and a block share an item under different
\* units, one without length_precision where a block is measured in metres.
UserMappings ==
    { [layers   |-> << [k |-> "PIPE", v |-> MapEntry("Pipe-25mm", "m")] >>,
       blocks   |-> << [k |-> "VALVE", v |-> MapEntry("Valve-Gate", "pcs")] >>,
       defaults |-> [unit_length |-> "m", length_precision |-> 2]],
      [layers   |-> << [k |-> "PIPE", v |-> MapEntry("ITEM", "m")],
                       [k |-> "WALL", v |-> MapEntry("ITEM", "pcs")] >>,
       blocks   |-> << [k |-> "VALVE", v |-> MapEntry("ITEM", "pcs")] >>,
       defaults |-> [unit_length |-> "m", length_precision |-> 1]],
      [layers   |-> << [k |-> "WALL", v |-> MapEntry("Cable", "m")] >>,
       blocks   |-> << [k |-> "VALVE", v |-> MapEntry("Cable", "m")] >>,
       defaults |-> [unit_length |-> "m"]] }

\* Files that are present but structurally invalid: a truncated text, an
\* empty object, an object without "defaults".
InvalidTexts ==
    { <<TokOpen, TokKey("layers")>>,
      <<TokOpen, TokClose>>,
      JsonDump([layers |-> << [k |-> "PIPE", v |-> MapEntry("Pipe-25mm", "m")] >>,
                blocks |-> << >>]) }

InitialFiles ==
    {NoFile} \cup {FileOf(JsonDump(m)) : m \in UserMappings}
             \cup {FileOf(t) : t \in InvalidTexts}

\* -------------------------------------------------------------------- state

Procs == {1, 2}

VARIABLES
    file,     \* mapping.json: [exists, text]
    prev,     \* the table the latest finished request loaded: [ok, doc]
    pc,       \* where each request stands in upload
    req,      \* the upload each process handles
    survey,   \* what explore_dxf returned
    wbuf,     \* ensure_mapping: the text json.dump left in the write buffer
    woff,     \* ensure_mapping: the offset of the open file
    wrote,    \* whether this request opened mapping.json for writing
    mapping,  \* parse_dxf: what json.load returned, [ok, doc]
    idx,      \* parse_dxf: the next entity of the first loop
    bom,      \* parse_dxf: the bom dict
    rows,     \* the rows export_excel wrote ([set, rows])
    reads,    \* how many times this request called ezdxf.readfile
    outcome   \* how the request ended

vars == <<file, prev, pc, req, survey, wbuf, woff, wrote, mapping, idx, bom, rows,
          reads, outcome>>

NoMapping == [ok |-> FALSE, doc |-> EmptyObject]

NoRows == [set |-> FALSE, rows |-> << >>]

NoRequest == Request(FALSE, FALSE, << >>)

\* The process-local state of p before an upload is handled.
Fresh(p, r, at) ==
    /\ req' = [req EXCEPT ![p] = r]
    /\ pc' = [pc EXCEPT ![p] = at]
    /\ survey' = [survey EXCEPT ![p] = EmptySurvey]
    /\ wbuf' = [wbuf EXCEPT ![p] = << >>]
    /\ woff' = [woff EXCEPT ![p] = 0]
    /\ wrote' = [wrote EXCEPT ![p] = FALSE]
    /\ mapping' = [mapping EXCEPT ![p] = NoMapping]
    /\ idx' = [idx EXCEPT ![p] = 1]
    /\ bom' = [bom EXCEPT ![p] = << >>]
    /\ rows' = [rows EXCEPT ![p] = NoRows]
    /\ reads' = [reads EXCEPT ![p] = 0]
    /\ outcome' = [outcome EXCEPT ![p] = "none"]

InitLocals ==
    /\ survey = [p \in Procs |-> EmptySurvey]
    /\ wbuf = [p \in Procs |-> << >>]
    /\ woff = [p \in Procs |-> 0]
    /\ wrote = [p \in Procs |-> FALSE]
    /\ mapping = [p \in Procs |-> NoMapping]
    /\ idx = [p \in Procs |-> 1]
    /\ bom = [p \in Procs |-> << >>]
    /\ rows = [p \in Procs |-> NoRows]
    /\ reads = [p \in Procs |-> 0]
    /\ outcome = [p \in Procs |-> "none"]
    /\ prev = NoMapping

\* One server process (1) handling one upload after another; 2 is not run.
Init ==
    /\ file \in InitialFiles
    /\ req = [p \in Procs |-> NoRequest]
    /\ pc = [p \in Procs |-> IF p = 1 THEN "idle" ELSE "off"]
    /\ InitLocals

\* ------------------------------------------------------------------ actions

\* Ends the request of p with the given outcome at program point where.
End(p, where, how) ==
    /\ pc' = [pc EXCEPT ![p] = where]
    /\ outcome' = [outcome EXCEPT ![p] = how]

\* upload: a file whose name does not end in .dxf is answered with the form.
UploadReject(p) ==
    /\ pc[p] = "upload"
    /\ ~req[p].name_ok
    /\ End(p, "done", "rejected")
    /\ UNCHANGED <<file, prev, req, survey, wbuf, woff, wrote, mapping, idx, bom, rows, reads>>

\* upload: the file is saved under uploads/ (after await file.read()).
UploadSave(p) ==
    /\ pc[p] = "upload"
    /\ req[p].name_ok
    /\ pc' = [pc EXCEPT ![p] = "explore"]
    /\ UNCHANGED <<file, prev, req, survey, wbuf, woff, wrote, mapping, idx, bom, rows,
                   reads, outcome>>

\* ExploreStep with the read error swallowed: an unreadable drawing is
\* surveyed as an empty one.
ExploreStepSwallow(p) ==
    /\ reads' = [reads EXCEPT ![p] = @ + 1]
    /\ survey' = [survey EXCEPT ![p] = explore_dxf(req[p].msp)]
    /\ pc' = [pc EXCEPT ![p] = "ensure"]
    /\ UNCHANGED outcome

\* What upload does at explore_dxf(dxf_path): ezdxf.readfile raises on a
\* drawing it cannot read, and the exception leaves upload (the outcome
\* "DrawingParseError" stands for whatever ezdxf raises).
ExploreStep(p) ==
    /\ reads' = [reads EXCEPT ![p] = @ + 1]
    /\ IF req[p].readable
       THEN /\ survey' = [survey EXCEPT ![p] = explore_dxf(req[p].msp)]
            /\ pc' = [pc EXCEPT ![p] = "ensure"]
            /\ UNCHANGED outcome
       ELSE /\ End(p, "failed", "DrawingParseError")
            /\ UNCHANGED survey

Explore(p) ==
    /\ pc[p] = "explore"
    /\ ExploreStep(p)
    /\ UNCHANGED <<file, prev, req, wbuf, woff, wrote, mapping, idx, bom, rows>>

\* MustWrite without the test: the mapping is generated on every upload.
MustWriteAlways(f) == TRUE

\* ensure_mapping: whether os.path.exists(mapping_path) lets the request write.
MustWrite(f) == ~f.exists

\* ensure_mapping: the test of os.path.exists(mapping_path).
EnsureCheck(p) ==
    /\ pc[p] = "ensure"
    /\ pc' = [pc EXCEPT ![p] = IF MustWrite(file) THEN "open" ELSE "load"]
    /\ UNCHANGED <<file, prev, req, survey, wbuf, woff, wrote, mapping, idx, bom, rows,
                   reads, outcome>>

\* ensure_mapping: open(mapping_path, "w") creates or truncates the file;
\* json.dump leaves the text of the synthesized mapping in the write buffer.
EnsureOpen(p) ==
    /\ pc[p] = "open"
    /\ file' = FileOf(<< >>)
    /\ wbuf' = [wbuf EXCEPT ![p] =
                   JsonDump(SynthMapping(survey[p].layer_counts, survey[p].block_counts))]
    /\ woff' = [woff EXCEPT ![p] = 0]
    /\ wrote' = [wrote EXCEPT ![p] = TRUE]
    /\ pc' = [pc EXCEPT ![p] = "write"]
    /\ UNCHANGED <<prev, req, survey, mapping, idx, bom, rows, reads, outcome>>

\* write(2) of chunk at offset off: the file grows as needed, a gap is zeros.
WriteAt(text, off, chunk) ==
    [i \in 1..(IF Len(text) > off + Len(chunk) THEN Len(text) ELSE off + Len(chunk)) |->
        IF i > off /\ i <= off + Len(chunk) THEN chunk[i - off]
        ELSE IF i <= Len(text) THEN text[i]
        ELSE TokNul]

\* ensure_mapping: the buffer reaches the file in one write or in several (a
\* flush of a full buffer, then the flush of close()); the with block ends
\* when the buffer is empty.
EnsureFlush(p) ==
    /\ pc[p] = "write"
    /\ \E n \in 1..Len(wbuf[p]) :
          /\ file' = FileOf(WriteAt(file.text, woff[p], SubSeq(wbuf[p], 1, n)))
          /\ woff' = [woff EXCEPT ![p] = @ + n]
          /\ wbuf' = [wbuf EXCEPT ![p] = SubSeq(@, n + 1, Len(@))]
          /\ pc' = [pc EXCEPT ![p] = IF n = Len(wbuf[p]) THEN "load" ELSE "write"]
    /\ UNCHANGED <<prev, req, survey, wrote, mapping, idx, bom, rows, reads, outcome>>

\* parse_dxf: json.load of mapping.json, then the drawing is read again.
LoadMapping(p) ==
    /\ pc[p] = "load"
    /\ IF ~file.exists
       THEN /\ End(p, "failed", "FileNotFoundError")
            /\ UNCHANGED <<mapping, reads>>
       ELSE IF ~JsonLoad(file.text).ok
       THEN /\ End(p, "failed", "JSONDecodeError")
            /\ UNCHANGED <<mapping, reads>>
       ELSE /\ mapping' = [mapping EXCEPT ![p] = JsonLoad(file.text)]
            /\ reads' = [reads EXCEPT ![p] = @ + 1]
            /\ pc' = [pc EXCEPT ![p] = "loop"]
            /\ UNCHANGED outcome
    /\ UNCHANGED <<file, prev, req, survey, wbuf, woff, wrote, idx, bom, rows>>

\* parse_dxf: one turn of the loop over the model space.
LoopStep(p) ==
    /\ pc[p] = "loop"
    /\ idx[p] <= Len(req[p].msp)
    /\ LET r == LoopBody(bom[p], req[p].msp[idx[p]], mapping[p].doc)
       IN IF r.err
          THEN /\ End(p, "failed", "KeyError")
               /\ UNCHANGED <<idx, bom>>
          ELSE /\ bom' = [bom EXCEPT ![p] = r.bom]
               /\ idx' = [idx EXCEPT ![p] = @ + 1]
               /\ UNCHANGED <<pc, outcome>>
    /\ UNCHANGED <<file, prev, req, survey, wbuf, woff, wrote, mapping, rows, reads>>

\* parse_dxf: the loop that rounds the quantities, and the return.
NormalizeStep(p) ==
    /\ pc[p] = "loop"
    /\ idx[p] > Len(req[p].msp)
    /\ LET r == Normalize(bom[p], mapping[p].doc)
       IN IF r.err
          THEN /\ End(p, "failed", "KeyError")
               /\ UNCHANGED bom
          ELSE /\ bom' = [bom EXCEPT ![p] = r.bom]
               /\ pc' = [pc EXCEPT ![p] = "export"]
               /\ UNCHANGED outcome
    /\ UNCHANGED <<file, prev, req, survey, wbuf, woff, wrote, mapping, idx, rows, reads>>

\* upload: export_excel, render_preview (which reads the drawing once more)
\* and the response.
Respond(p) ==
    /\ pc[p] = "export"
    /\ rows' = [rows EXCEPT ![p] = [set |-> TRUE, rows |-> export_excel(bom[p])]]
    /\ reads' = [reads EXCEPT ![p] = @ + 1]
    /\ End(p, "done", "ok")
    /\ UNCHANGED <<file, prev, req, survey, wbuf, woff, wrote, mapping, idx, bom>>

\* upload has returned or raised: the request's locals are gone, and the
\* table it loaded is remembered as the previous one.
Finish(p) ==
    /\ pc[p] \in {"done", "failed"}
    /\ prev' = IF mapping[p].ok THEN mapping[p] ELSE prev
    /\ Fresh(p, NoRequest, "idle")
    /\ UNCHANGED file

\* The server takes the next upload.
Accept(p) ==
    /\ pc[p] = "idle"
    /\ \E r \in Requests : req' = [req EXCEPT ![p] = r]
    /\ pc' = [pc EXCEPT ![p] = "upload"]
    /\ UNCHANGED <<file, prev, survey, wbuf, woff, wrote, mapping, idx, bom, rows, reads,
                   outcome>>

Next ==
    \E p \in Procs :
        \/ Accept(p)
        \/ UploadReject(p)
        \/ UploadSave(p)
        \/ Explore(p)
        \/ EnsureCheck(p)
        \/ EnsureOpen(p)
        \/ EnsureFlush(p)
        \/ LoadMapping(p)
        \/ LoopStep(p)
        \/ NormalizeStep(p)
        \/ Respond(p)
        \/ Finish(p)

Spec == Init /\ [][Next]_vars

\* --------------------------------------------- two uploads at the same time

\* Two server processes (uvicorn workers) each handle one upload of a readable
\* drawing while mapping.json does not exist yet.
RaceDrawings ==
    {d \in Drawings :
        \/ d = << >>
        \/ Len(d) = 1 /\ d[1].type = "LINE" /\ d[1].layer = "pipe"
        \/ Len(d) = 2 /\ d[1].type = "LWPOLYLINE" /\ d[2].type = "INSERT"
           /\ d[2].name = "valve"}

InitRace ==
    /\ file = NoFile
    /\ req \in [Procs -> {Request(TRUE, TRUE, d) : d \in RaceDrawings}]
    /\ pc = [p \in Procs |-> "upload"]
    /\ InitLocals

NextRace ==
    \E p \in Procs :
        \/ UploadSave(p)
        \/ Explore(p)
        \/ EnsureCheck(p)
        \/ EnsureOpen(p)
        \/ EnsureFlush(p)
        \/ LoadMapping(p)
        \/ LoopStep(p)
        \/ NormalizeStep(p)
        \/ Respond(p)

SpecRace == InitRace /\ [][NextRace]_vars

\* --------------------------------------------------------------- properties

\* The requests whose ensure_mapping has returned.
Ensured(p) == pc[p] \in {"load", "loop", "export", "done"}

\* The tables the requests that wrote mapping.json synthesized.
WrittenTables ==
    {SynthMapping(survey[q].layer_counts, survey[q].block_counts) :
        q \in {r \in Procs : wrote[r]}}

\* C1: when two uploads interleave while mapping.json does not exist, no
\* reader ever observes a half-written or malformed table: every json.load
\* returns the complete table one of the writers synthesized, and so does a
\* read of the file once both uploads have ended.
C1_NoTornTableObserved ==
    /\ \A p \in Procs : outcome[p] # "JSONDecodeError"
    /\ \A p \in Procs : mapping[p].ok => mapping[p].doc \in WrittenTables
    /\ (\A p \in Procs : pc[p] \in {"done", "failed"})
          => JsonLoad(file.text).ok /\ JsonLoad(file.text).doc \in WrittenTables

RECURSIVE PermsOf(_)
\* The orderings of the set I, as sequences.
PermsOf(I) ==
    IF I = {} THEN {<< >>}
    ELSE UNION {{<<i>> \o q : q \in PermsOf(I \ {i})} : i \in I}

\* The permutations of 1..n.
Perms(n) == PermsOf(1..n)

Reordered(msp, f) == [i \in 1..Len(msp) |-> msp[f[i]]]

SameTallies(a, b) ==
    /\ DictAsMap(a.entity_counts) = DictAsMap(b.entity_counts)
    /\ DictAsMap(a.layer_counts) = DictAsMap(b.layer_counts)
    /\ DictAsMap(a.block_counts) = DictAsMap(b.block_counts)

\* C7: the survey is permutation-invariant: the three tallies explore_dxf
\* returned for a drawing are those it returns for every reordering of the
\* drawing's entities.
C7_SurveyPermutationInvariant ==
    \A p \in Procs :
        pc[p] = "ensure" =>
            \A f \in Perms(Len(req[p].msp)) :
                SameTallies(survey[p], explore_dxf(Reordered(req[p].msp, f)))

\* C7 witness: a surveyed drawing of three entities of different types whose
\* layers and blocks are tallied.
C7_Witness ==
    \E p \in Procs :
        /\ pc[p] = "ensure"
        /\ Len(req[p].msp) = 3
        /\ Len(survey[p].entity_counts) = 3
        /\ \E i \in 1..Len(survey[p].layer_counts) : survey[p].layer_counts[i].v = 2
        /\ survey[p].block_counts # << >>

\* C8: an upload whose drawing cannot be read ends in an error raised to the
\* caller at the first read, which is not tried again; no mapping is written,
\* no BoM is built and nothing is exported.
C8_UnreadableDrawingFails ==
    \A p \in Procs :
        (req[p].name_ok /\ ~req[p].readable /\ pc[p] \notin {"idle", "off", "upload", "explore"})
        => /\ pc[p] = "failed"
           /\ outcome[p] = "DrawingParseError"
           /\ reads[p] = 1
           /\ ~wrote[p]
           /\ ~mapping[p].ok
           /\ bom[p] = << >>
           /\ ~rows[p].set

\* C8 witness: an upload of an unreadable drawing has ended.
C8_Witness ==
    \E p \in Procs : req[p].name_ok /\ ~req[p].readable /\ pc[p] = "failed"

\* Whether association list d maps exactly the keys of tally to themselves as
\* item, with the given unit.
SelfMapped(d, tally, unit) ==
    /\ DictKeys(d) = DictKeys(tally)
    /\ Len(d) = Cardinality(DictKeys(tally))
    /\ \A i \in 1..Len(d) : d[i].v = MapEntry(d[i].k, unit)

\* C4: when mapping.json does not exist, the table persisted before parse_dxf
\* reads it has exactly the surveyed layer names as layer keys, each mapped to
\* itself in metres, exactly the surveyed block names as block keys, each
\* mapped to itself in pieces, and the defaults unit_length = m and
\* length_precision = 2; that table is the one parse_dxf loads.
C4_SynthesizedTable ==
    \A p \in Procs :
        (wrote[p] /\ Ensured(p)) =>
            LET t == JsonLoad(file.text)
            IN /\ t.ok
               /\ DOMAIN t.doc = {"layers", "blocks", "defaults"}
               /\ SelfMapped(t.doc.layers, survey[p].layer_counts, "m")
               /\ SelfMapped(t.doc.blocks, survey[p].block_counts, "pcs")
               /\ t.doc.defaults = [unit_length |-> "m", length_precision |-> 2]
               /\ DictKeys(t.doc.layers)
                    = {Upper(req[p].msp[i].layer) :
                         i \in {j \in 1..Len(req[p].msp) : req[p].msp[j].haslayer}}
               /\ DictKeys(t.doc.blocks)
                    = {Upper(req[p].msp[i].name) :
                         i \in {j \in 1..Len(req[p].msp) : req[p].msp[j].type = "INSERT"}}
               /\ (pc[p] \in {"loop", "export", "done"} => mapping[p] = t)

\* C4 witness: a request synthesized the table of a drawing with two layers
\* (one of them seen twice) and one block, and parse_dxf has loaded it.
C4_Witness ==
    \E p \in Procs :
        /\ wrote[p]
        /\ pc[p] = "loop"
        /\ DictKeys(mapping[p].doc.layers) = {"WALL", "PIPE"}
        /\ DictKeys(mapping[p].doc.blocks) = {"VALVE"}
        /\ \E i \in 1..Len(survey[p].layer_counts) : survey[p].layer_counts[i].v = 2

\* What the claims say of one entity under a table: whether it is a curve on
\* a mapped layer or a reference to a mapped block, the entry it falls under,
\* and what it adds (thousandths).
IsCurve(e) == e.type \in {"LINE", "LWPOLYLINE", "POLYLINE"}

IsMapped(e, m) ==
    \/ IsCurve(e) /\ "layers" \in DOMAIN m /\ Upper(e.layer) \in DictKeys(m.layers)
    \/ e.type = "INSERT" /\ "blocks" \in DOMAIN m /\ Upper(e.name) \in DictKeys(m.blocks)

EntryOf(e, m) ==
    IF IsCurve(e) THEN DictGet(m.layers, Upper(e.layer)) ELSE DictGet(m.blocks, Upper(e.name))

\* The entities among the first n that fall under item.
Feeders(msp, n, m, item) ==
    {i \in 1..n : IsMapped(msp[i], m) /\ EntryOf(msp[i], m).item = item}

RECURSIVE SumLengths(_, _)
\* The summed length (mm) of the entities of msp at the positions I.
SumLengths(msp, I) ==
    IF I = {} THEN 0
    ELSE LET i == CHOOSE j \in I : TRUE
         IN entity_length(msp[i]) + SumLengths(msp, I \ {i})

LayerFeeders(msp, n, m, item) == {i \in Feeders(msp, n, m, item) : IsCurve(msp[i])}

BlockFeeders(msp, n, m, item) == {i \in Feeders(msp, n, m, item) : msp[i].type = "INSERT"}

\* The items the first n entities fall under.
FedItems(msp, n, m) ==
    {EntryOf(msp[i], m).item : i \in {j \in 1..n : IsMapped(msp[j], m)}}

Min(I) == CHOOSE i \in I : \A j \in I : i <= j

\* C3: a request that finds mapping.json present never writes it, the table
\* parse_dxf loads is the stored one whatever the survey holds, and a request
\* that follows one that loaded a table loads the identical table without
\* writing.
C3_ExistingMappingIsAuthoritative ==
    [][\A p \in Procs :
         /\ (pc[p] = "ensure" /\ file.exists)
               => (file' = file /\ pc'[p] \in {"ensure", "load"} /\ ~wrote'[p])
         /\ (pc[p] \in {"load", "loop", "export", "done"} /\ ~wrote[p]) => file' = file
         /\ (pc[p] = "load" /\ pc'[p] = "loop")
               => (mapping'[p] = JsonLoad(file.text) /\ mapping'[p].ok /\ file' = file)
         /\ (pc[p] = "load" /\ pc'[p] = "loop" /\ prev.ok)
               => (mapping'[p] = prev /\ ~wrote[p])
         /\ (pc[p] \in {"ensure", "open", "write", "load"} /\ prev.ok) => file' = file
      ]_vars

\* C3 witness: a second request has loaded, without writing, the table the
\* first one loaded, although its drawing has a layer the table
\* lacks; the table is one the first request synthesized.
C3_Witness ==
    \E p \in Procs :
        /\ prev.ok
        /\ pc[p] = "loop"
        /\ ~wrote[p]
        /\ mapping[p] = prev
        /\ file \notin InitialFiles
        /\ "layers" \in DOMAIN mapping[p].doc
        /\ ~(DictKeys(survey[p].layer_counts) \subseteq DictKeys(mapping[p].doc.layers))

\* C9: before the quantities are rounded the bom holds one line per item the
\* entities read so far fall under, and the quantity of each line is the sum
\* of the lengths (in metres) of the curves on the layers mapped to the item
\* plus the number of references to the blocks mapped to it.
C9_OneLinePerItem ==
    \A p \in Procs :
        pc[p] = "loop" =>
            LET msp == req[p].msp
                n   == idx[p] - 1
                m   == mapping[p].doc
            IN /\ Len(bom[p]) = Cardinality(DictKeys(bom[p]))
               /\ DictKeys(bom[p]) = FedItems(msp, n, m)
               /\ \A i \in 1..Len(bom[p]) :
                     bom[p][i].v.quantity
                       = SumLengths(msp, LayerFeeders(msp, n, m, bom[p][i].k))
                         + 1000 * Cardinality(BlockFeeders(msp, n, m, bom[p][i].k))

\* C9 witness: the loop has ended with a single line fed by two layers and a
\* block.
C9_Witness ==
    \E p \in Procs :
        /\ pc[p] = "loop"
        /\ idx[p] > Len(req[p].msp)
        /\ Len(bom[p]) = 1
        /\ Cardinality({Upper(req[p].msp[i].layer) :
                          i \in LayerFeeders(req[p].msp, idx[p] - 1, mapping[p].doc, bom[p][1].k)}) = 2
        /\ BlockFeeders(req[p].msp, idx[p] - 1, mapping[p].doc, bom[p][1].k) # {}

\* The requests whose parse_dxf has returned a bom.
Parsed(p) == pc[p] \in {"export", "done"}

\* The first of the entities read so far that falls under item.
FirstFeeder(p, item) == Min(Feeders(req[p].msp, idx[p] - 1, mapping[p].doc, item))

\* C10: the unit and the source of a line are those of the first entity, in
\* model-space order, that falls under its item; later entities change its
\* quantity only; and the returned quantity is the total rounded to the
\* configured precision when that first unit is metres, cut to an integer
\* otherwise.
C10_FirstContributorFixesLine ==
    \A p \in Procs :
        pc[p] \in {"loop", "export", "done"} =>
            \A i \in 1..Len(bom[p]) :
                LET msp   == req[p].msp
                    m     == mapping[p].doc
                    item  == bom[p][i].k
                    first == msp[FirstFeeder(p, item)]
                    total == SumLengths(msp, LayerFeeders(msp, idx[p] - 1, m, item))
                             + 1000 * Cardinality(BlockFeeders(msp, idx[p] - 1, m, item))
                IN /\ bom[p][i].v.unit = EntryOf(first, m).unit
                   /\ bom[p][i].v.source = (IF IsCurve(first) THEN "Layer" ELSE "Block")
                   /\ Parsed(p) =>
                        bom[p][i].v.quantity
                          = (IF EntryOf(first, m).unit = "m"
                             THEN Round(total, LengthPrecision(m)) ELSE IntPart(total))

\* C10 witness: a returned bom has a line fed by a layer and a block whose
\* unit, source and quantity all differ from those parse_dxf returns for a
\* reordering of the same drawing.
C10_Witness ==
    \E p \in Procs :
        /\ pc[p] = "done"
        /\ outcome[p] = "ok"
        /\ \E f \in Perms(Len(req[p].msp)) :
              LET other == parse_dxf(Reordered(req[p].msp, f), mapping[p].doc)
              IN /\ ~other.err
                 /\ \E i \in 1..Len(bom[p]) :
                       LET item == bom[p][i].k
                       IN /\ LayerFeeders(req[p].msp, Len(req[p].msp), mapping[p].doc, item) # {}
                          /\ BlockFeeders(req[p].msp, Len(req[p].msp), mapping[p].doc, item) # {}
                          /\ DictHas(other.bom, item)
                          /\ DictGet(other.bom, item).unit # bom[p][i].v.unit
                          /\ DictGet(other.bom, item).source # bom[p][i].v.source
                          /\ DictGet(other.bom, item).quantity # bom[p][i].v.quantity

\* The lines of a returned bom that no block reference feeds.
LayerOnly(p, item) ==
    BlockFeeders(req[p].msp, Len(req[p].msp), mapping[p].doc, item) = {}

\* The summed length, in thousandths of a metre, of the curves whose layer is
\* mapped to item.
LayerTotal(p, item) ==
    SumLengths(req[p].msp, LayerFeeders(req[p].msp, Len(req[p].msp), mapping[p].doc, item))

\* C5 as stated: the quantity of a line fed by layers only is the summed
\* length over 1000, rounded to the configured precision when the unit is
\* metres (and left as it is otherwise), its source is the layer, and curves
\* on unmapped layers feed no line.
C5_Original_LayerQuantity ==
    \A p \in Procs :
        Parsed(p) =>
            /\ DictKeys(bom[p]) = FedItems(req[p].msp, Len(req[p].msp), mapping[p].doc)
            /\ \A i \in 1..Len(bom[p]) :
                  LayerOnly(p, bom[p][i].k) =>
                      /\ bom[p][i].v.source = "Layer"
                      /\ bom[p][i].v.quantity
                           = (IF bom[p][i].v.unit = "m"
                              THEN Round(LayerTotal(p, bom[p][i].k),
                                         LengthPrecision(mapping[p].doc))
                              ELSE LayerTotal(p, bom[p][i].k))

\* C5 (amended): the quantity of a line fed by layers only is the summed
\* length over 1000, rounded to the configured precision when the line's unit
\* is metres and cut to an integer when it is any other unit; its source is
\* the layer, and curves on unmapped layers feed no line and raise no error.
C5_LayerQuantity ==
    \A p \in Procs :
        /\ Parsed(p) =>
            /\ DictKeys(bom[p]) = FedItems(req[p].msp, Len(req[p].msp), mapping[p].doc)
            /\ \A i \in 1..Len(bom[p]) :
                  LayerOnly(p, bom[p][i].k) =>
                      /\ bom[p][i].v.source = "Layer"
                      /\ bom[p][i].v.quantity
                           = (IF bom[p][i].v.unit = "m"
                              THEN Round(LayerTotal(p, bom[p][i].k),
                                         LengthPrecision(mapping[p].doc))
                              ELSE IntPart(LayerTotal(p, bom[p][i].k)))
        /\ (pc[p] = "failed" /\ outcome[p] = "KeyError" /\ idx[p] <= Len(req[p].msp))
              => ~("layers" \in DOMAIN mapping[p].doc /\ IsCurve(req[p].msp[idx[p]]))

\* C5 witness: segments of 1000 and 500 on the mapped layer PIPE, with a
\* curve on an unmapped layer beside them, gave one line of 1.50 m from the
\* layer.
C5_Witness ==
    \E p \in Procs :
        /\ pc[p] = "done"
        /\ Len(req[p].msp) = 3
        /\ \E j \in 1..3 : IsCurve(req[p].msp[j]) /\ ~IsMapped(req[p].msp[j], mapping[p].doc)
        /\ bom[p] = << [k |-> "Pipe-25mm", v |-> BomLine(1500, "m", "Layer")] >>

\* The line of item in bom d, or an empty line when d has none.
LineOf(d, item) == IF DictHas(d, item) THEN DictGet(d, item) ELSE BomLine(0, "", "")

\* C6 as stated: every reference to a mapped block that has been read has
\* added exactly 1 to the line of the block's item, and that line records the
\* source derived-from-block.
C6_Original_BlockSource ==
    \A p \in Procs :
        pc[p] \in {"loop", "export", "done"} =>
            \A j \in 1..(idx[p] - 1) :
                LET e == req[p].msp[j]
                    m == mapping[p].doc
                IN (e.type = "INSERT" /\ IsMapped(e, m)) =>
                      /\ DictHas(bom[p], EntryOf(e, m).item)
                      /\ DictGet(bom[p], EntryOf(e, m).item).source = "Block"

\* C6 (amended): a turn of the loop on a reference to a mapped block adds
\* exactly 1 to the line of the block's item and leaves every other line as
\* it is; the line records the source derived-from-block when that reference
\* is the first entity to feed it, and keeps the source it has otherwise; a
\* reference to an unmapped block changes nothing and raises no error; and a
\* line fed by block references only is returned with the number of those
\* references as its quantity.
C6_BlockCount ==
    [][\A p \in Procs :
         /\ (pc[p] = "loop" /\ idx[p] <= Len(req[p].msp) /\ req'[p] = req[p]
               /\ (idx'[p] # idx[p] \/ pc'[p] # pc[p])
               /\ req[p].msp[idx[p]].type = "INSERT" /\ "blocks" \in DOMAIN mapping[p].doc)
             => LET e == req[p].msp[idx[p]]
                    m == mapping[p].doc
                IN /\ pc'[p] = "loop" /\ idx'[p] = idx[p] + 1
                   /\ IF IsMapped(e, m)
                      THEN LET item == EntryOf(e, m).item
                           IN /\ DictHas(bom'[p], item)
                              /\ DictGet(bom'[p], item).quantity
                                   = LineOf(bom[p], item).quantity + 1000
                              /\ DictHas(bom[p], item)
                                   => /\ DictGet(bom'[p], item).source
                                          = DictGet(bom[p], item).source
                                      /\ DictGet(bom'[p], item).unit
                                          = DictGet(bom[p], item).unit
                              /\ ~DictHas(bom[p], item)
                                   => /\ DictGet(bom'[p], item).source = "Block"
                                      /\ DictGet(bom'[p], item).unit = EntryOf(e, m).unit
                              /\ \A k \in DictKeys(bom'[p]) \ {item} :
                                    DictHas(bom[p], k) /\ DictGet(bom'[p], k) = DictGet(bom[p], k)
                      ELSE bom'[p] = bom[p]
         /\ (pc[p] = "loop" /\ pc'[p] = "export")
             => \A i \in 1..Len(bom'[p]) :
                   LET item == bom[p][i].k
                       m    == mapping[p].doc
                   IN LayerFeeders(req[p].msp, Len(req[p].msp), m, item) = {}
                        => /\ bom'[p][i].v.source = "Block"
                           /\ bom'[p][i].v.quantity
                                = 1000 * Cardinality(BlockFeeders(req[p].msp, Len(req[p].msp),
                                                                  m, item))
      ]_vars

\* C6 witness: three references to the mapped block VALVE, one of them
\* written in lower case, gave one line of 3 pieces from the block.
C6_Witness ==
    \E p \in Procs :
        /\ pc[p] = "done"
        /\ Len(req[p].msp) = 3
        /\ \E j \in 1..3 : req[p].msp[j].name = "valve"
        /\ bom[p] = << [k |-> "Valve-Gate", v |-> BomLine(3000, "pcs", "Block")] >>

\* A text that cannot be decoded or lacks one of the required fields.
StructurallyInvalid(text) ==
    \/ ~JsonLoad(text).ok
    \/ ~({"layers", "blocks", "defaults"} \subseteq DOMAIN JsonLoad(text).doc)

\* C2: when mapping.json is present but structurally invalid, a request on a
\* readable drawing ends in a mapping load error raised to the caller: it
\* returns no BoM, exports nothing, and has not written the file.
C2_InvalidMappingFails ==
    \A p \in Procs :
        (/\ req[p].name_ok /\ req[p].readable
         /\ file.exists /\ ~wrote[p] /\ StructurallyInvalid(file.text)
         /\ pc[p] \in {"export", "done", "failed"})
        => /\ pc[p] = "failed"
           /\ outcome[p] \in {"JSONDecodeError", "KeyError"}
           /\ ~rows[p].set

====
